---- MODULE Spec2Model ----
(***************************************************************************)
(* Ball tracker (src/src/tracking/ball_tracker.py), tracked-ball record    *)
(* (src/src/core/data_models.py) and trajectory analyzer                   *)
(* (src/src/tracking/trajectory_analyzer.py).                              *)
(*                                                                         *)
(* Geometry: every detection lies on the line y = 0, so a Point is its x   *)
(* coordinate and Point.distance_to is |x1 - x2| (exact, no rounding).     *)
(* The Kalman filter keeps (x, vx); its y components stay 0 on that line.  *)
(* Its gains and the wall-clock time step dt are real numbers the code     *)
(* derives from time.time() and the covariance; they are drawn from small  *)
(* sets of rationals k / GainDen and integers 0..MaxDt.                    *)
(***************************************************************************)
EXTENDS Integers, Sequences, FiniteSets, TLC

VARIABLES
    tracks,            \* BallTracker.tracks: id -> TrackedBall
    kalman_filters,    \* BallTracker.kalman_filters: id -> [x, v]
    next_track_id,     \* BallTracker.next_track_id
    tracking_stats,    \* BallTracker.tracking_stats
    trajectory_smoothing, \* TrackingConfig.trajectory_smoothing
    max_disappeared_frames, \* TrackingConfig.max_disappeared_frames
    frame,             \* frame_number of the latest update() call
    end_frame,         \* last frame number of the video being processed
    fed,               \* number of detections passed to update() so far
    returned,          \* ids of the tracks returned by the latest update()
    detections,        \* the detection list of the latest update()
    associations,      \* the associations of the latest update(): id -> index
    created,           \* tracks created by the latest update(): id -> index
    predicted,         \* predicted_position of each filter in the latest update()
    issued,            \* every <<epoch, id>> handed out by _create_new_tracks
    epoch,             \* number of reset_tracking() calls so far
    calibration_data,  \* TrajectoryAnalyzer.calibration_data (<<>> is None)
    detected_events,   \* TrajectoryAnalyzer.detected_events
    ball_states,       \* TrajectoryAnalyzer.ball_states: id -> state
    potting_events,    \* list returned by the latest detect_potting_events()
    analyzed,          \* TRUE once detect_potting_events ran on the latest frame
    collision_events,  \* list returned by the latest detect_collision_events()
    collisions_checked, \* TRUE once detect_collision_events ran on the latest frame
    raised             \* TRUE when the latest update() call raised to its caller

vars == <<tracks, kalman_filters, next_track_id, tracking_stats,
          trajectory_smoothing, max_disappeared_frames, frame, end_frame, fed, returned,
          detections, associations, created, predicted, issued, epoch,
          calibration_data,
          detected_events, ball_states, potting_events, analyzed,
          collision_events, collisions_checked, raised>>

----------------------------------------------------------------------------
(* Bounds of the model *)

MaxFrame == 4               \* frames per run
MaxDets == 2                \* detections per frame
MaxDisappearedFrames == 1   \* the max_disappeared_frames of a default run
MaxDt == 1                  \* largest wall-clock step seen by predict()
GainDen == 2                \* Kalman gains are k / GainDen
MaxResets == 1              \* reset_tracking() calls per run
MaxFed == 4                 \* detections per run

(* Program constants *)

MaxTrackingDistance == 50   \* TrackingConfig.max_tracking_distance
TrajCap == 100              \* update_position: len(trajectory) > 100
TrajKeep == 50              \* update_position: trajectory[-50:]
MotionThreshold == 5        \* TrajectoryAnalyzer.motion_threshold
PocketThreshold == 30       \* TrajectoryAnalyzer.pocket_threshold
RecentWindow == 5           \* trajectory[-5:]
MinRecent == 3              \* len(recent_positions) >= 3

CollisionDistance == 25     \* _detect_ball_collision: collision_distance

CUE_BALL == 0
RED == 2
ClassIds == {CUE_BALL, RED}
PosGains == {1, 2}          \* position gain numerators, gain in (0, 1]
VelGains == {0, 1}          \* velocity gain numerators, gain in [0, 1/2]

STATIONARY == "stationary"
MOVING == "moving"
POTTED == "potted"
LOST == "lost"
COLLISION == "collision"

----------------------------------------------------------------------------
(* Helpers *)

Abs(a) == IF a < 0 THEN -a ELSE a

Range(s) == {s[i] : i \in 1..Len(s)}

RECURSIVE SumSeq(_)
SumSeq(s) == IF s = <<>> THEN 0 ELSE Head(s) + SumSeq(Tail(s))

\* the ids of a dict as the list Python iterates (insertion = ascending id)
RECURSIVE SortedIds(_)
SortedIds(S) ==
    IF S = {} THEN <<>>
    ELSE LET m == CHOOSE a \in S : \A b \in S : a <= b
         IN <<m>> \o SortedIds(S \ {m})

\* Python s[-n:]
LastN(s, n) == IF Len(s) <= n THEN s ELSE SubSeq(s, Len(s) - n + 1, Len(s))

\* Point.distance_to on the line y = 0
distance_to(p, q) == Abs(p - q)

\* BoundingBox.get_center / Detection.get_centroid
get_centroid(d) == (d.bbox.x1 + d.bbox.x2) \div 2

\* Detection.get_ball_type
get_ball_type(d) == d.class_id

\* a detection as the tests build it: bbox (x - 10, x + 10)
MkDetection(x, c, conf) ==
    [bbox |-> [x1 |-> x - 10, x2 |-> x + 10], class_id |-> c, confidence |-> conf]

\* the detector's vocabulary: a cue ball on the pocket (x = 0), near it and
\* far from it, and a red on the pocket; confidence in tenths
Detection == {MkDetection(0, CUE_BALL, 8), MkDetection(20, CUE_BALL, 9),
              MkDetection(80, CUE_BALL, 8), MkDetection(0, RED, 9)}

DetectionLists == UNION {[1..n -> Detection] : n \in 0..MaxDets}

----------------------------------------------------------------------------
(* TrackedBall *)

\* is_lost that fires as soon as the gap reaches the tolerance
is_lost_at_tolerance(track, current_frame, max_frames) ==
    (current_frame - track.last_seen_frame) >= max_frames

\* TrackedBall.is_lost
is_lost(track, current_frame, max_frames) ==
    (current_frame - track.last_seen_frame) > max_frames

\* update_position cutting from the wrong end: trajectory[:50]
update_position_oldest(track, new_position, confidence, frame_number) ==
    LET t1 == [track EXCEPT
                 !.velocity = <<new_position - track.current_position>>,
                 !.current_position = new_position,
                 !.trajectory = Append(track.trajectory, new_position),
                 !.confidence_history = Append(track.confidence_history, confidence),
                 !.last_seen_frame = frame_number]
    IN IF Len(t1.trajectory) > TrajCap
       THEN [t1 EXCEPT !.trajectory = SubSeq(t1.trajectory, 1, TrajKeep),
                       !.confidence_history = SubSeq(t1.confidence_history, 1, TrajKeep)]
       ELSE t1

\* update_position cutting the trajectory but not the confidence history
update_position_uncut_confidence(track, new_position, confidence, frame_number) ==
    LET t1 == [track EXCEPT
                 !.velocity = <<new_position - track.current_position>>,
                 !.current_position = new_position,
                 !.trajectory = Append(track.trajectory, new_position),
                 !.confidence_history = Append(track.confidence_history, confidence),
                 !.last_seen_frame = frame_number]
    IN IF Len(t1.trajectory) > TrajCap
       THEN [t1 EXCEPT !.trajectory = LastN(t1.trajectory, TrajKeep)]
       ELSE t1

\* update_position that does not record the frame number
update_position_stale_frame(track, new_position, confidence, frame_number) ==
    LET t1 == [track EXCEPT
                 !.velocity = <<new_position - track.current_position>>,
                 !.current_position = new_position,
                 !.trajectory = Append(track.trajectory, new_position),
                 !.confidence_history = Append(track.confidence_history, confidence)]
    IN IF Len(t1.trajectory) > TrajCap
       THEN [t1 EXCEPT !.trajectory = LastN(t1.trajectory, TrajKeep),
                       !.confidence_history = LastN(t1.confidence_history, TrajKeep)]
       ELSE t1

\* TrackedBall.update_position
update_position(track, new_position, confidence, frame_number) ==
    LET t1 == [track EXCEPT
                 !.velocity = <<new_position - track.current_position>>,
                 !.current_position = new_position,
                 !.trajectory = Append(track.trajectory, new_position),
                 !.confidence_history = Append(track.confidence_history, confidence),
                 !.last_seen_frame = frame_number]
    IN IF Len(t1.trajectory) > TrajCap
       THEN [t1 EXCEPT !.trajectory = LastN(t1.trajectory, TrajKeep),
                       !.confidence_history = LastN(t1.confidence_history, TrajKeep)]
       ELSE t1

----------------------------------------------------------------------------
(* KalmanFilter *)

\* KalmanFilter.__init__
KalmanInit(initial_position) == [x |-> initial_position, v |-> 0]

\* KalmanFilter.predict: state = F @ state with F[0,2] = dt
KalmanPredict(kf, dt) == [kf EXCEPT !.x = kf.x + dt * kf.v]

\* KalmanFilter.update: state = state + K @ (z - H @ state)
KalmanUpdate(kf, z, kp, kv) ==
    [x |-> kf.x + (kp * (z - kf.x)) \div GainDen,
     v |-> kf.v + (kv * (z - kf.x)) \div GainDen]

----------------------------------------------------------------------------
(* BallTracker *)

EmptyMap == [x \in {} |-> 0]

Inf == -1    \* float('inf') cell of the cost matrix

\* active_track_ids of _associate_detections_to_tracks
active_track_ids(trks) == SortedIds({id \in DOMAIN trks : trks[id].is_active})

\* the cost matrix without the ball type test
cost_matrix_any_type(trks, dets) ==
    LET ids == active_track_ids(trks)
    IN [p \in (1..Len(ids)) \X (1..Len(dets)) |->
          LET track == trks[ids[p[1]]]
              detection == dets[p[2]]
              distance == distance_to(track.current_position, get_centroid(detection))
          IN IF distance <= MaxTrackingDistance THEN distance ELSE Inf]

\* the cost matrix without the maximum distance test
cost_matrix_any_distance(trks, dets) ==
    LET ids == active_track_ids(trks)
    IN [p \in (1..Len(ids)) \X (1..Len(dets)) |->
          LET track == trks[ids[p[1]]]
              detection == dets[p[2]]
              distance == distance_to(track.current_position, get_centroid(detection))
          IN IF track.ball_type = get_ball_type(detection) THEN distance ELSE Inf]

\* the cost matrix of _associate_detections_to_tracks; rows are positions in
\* active_track_ids, columns are detection indices (1-based here)
cost_matrix(trks, dets) ==
    LET ids == active_track_ids(trks)
    IN [p \in (1..Len(ids)) \X (1..Len(dets)) |->
          LET track == trks[ids[p[1]]]
              detection == dets[p[2]]
              distance == distance_to(track.current_position, get_centroid(detection))
          IN IF track.ball_type = get_ball_type(detection)
                /\ distance <= MaxTrackingDistance
             THEN distance ELSE Inf]

Injections(A, B) == {f \in [A -> B] : \A a, b \in A : a # b => f[a] # f[b]}

\* assignments that let two rows share a column
AssignmentsShared(n, m) ==
    {{<<i, f[i]>> : i \in 1..n} : f \in [1..n -> 1..m]}

\* the complete assignments of an n x m matrix: min(n, m) pairs, no row or
\* column used twice
Assignments(n, m) ==
    IF n <= m
    THEN {{<<i, f[i]>> : i \in 1..n} : f \in Injections(1..n, 1..m)}
    ELSE {{<<g[j], j>> : j \in 1..m} : g \in Injections(1..m, 1..n)}

RECURSIVE SortedPairs(_)
SortedPairs(S) ==
    IF S = {} THEN <<>>
    ELSE LET m == CHOOSE a \in S : \A b \in S : a[1] <= b[1]
         IN <<m>> \o SortedPairs(S \ {m})

TotalCost(cost, sol) == SumSeq([k \in 1..Cardinality(sol) |->
                                  cost[SortedPairs(sol)[k]]])

\* scipy.optimize.linear_sum_assignment: the minimum-cost complete
\* assignments; the empty set when every complete assignment uses an
\* infinite cell ("cost matrix is infeasible", a ValueError).  Which of
\* several optimal assignments scipy returns is left open.
linear_sum_assignment(cost, n, m) ==
    LET feasible == {sol \in Assignments(n, m) : \A p \in sol : cost[p] # Inf}
    IN {sol \in feasible :
          \A other \in feasible : TotalCost(cost, sol) <= TotalCost(cost, other)}

\* association whose except branch does not count the failure
_associate_detections_to_tracks_uncounted(trks, dets) ==
    LET ids == active_track_ids(trks)
        cost == cost_matrix(trks, dets)
        sols == linear_sum_assignment(cost, Len(ids), Len(dets))
    IN IF DOMAIN trks = {} \/ Len(dets) = 0 \/ Len(ids) = 0
       THEN {[assoc |-> EmptyMap, failures |-> 0]}
       ELSE IF sols = {}
       THEN {[assoc |-> EmptyMap, failures |-> 0]}
       ELSE {[assoc |-> [id \in {ids[p[1]] : p \in {q \in sol : cost[q] # Inf}} |->
                           (CHOOSE q \in sol : ids[q[1]] = id)[2]],
              failures |-> Cardinality({q \in sol : cost[q] = Inf})] : sol \in sols}

\* BallTracker._associate_detections_to_tracks: the possible results, each
\* the associations dict and the increment of association_failures
_associate_detections_to_tracks(trks, dets) ==
    LET ids == active_track_ids(trks)
        cost == cost_matrix(trks, dets)
        sols == linear_sum_assignment(cost, Len(ids), Len(dets))
    IN IF DOMAIN trks = {} \/ Len(dets) = 0 \/ Len(ids) = 0
       THEN {[assoc |-> EmptyMap, failures |-> 0]}
       ELSE IF sols = {}
       THEN {[assoc |-> EmptyMap, failures |-> 1]}
       ELSE {[assoc |-> [id \in {ids[p[1]] : p \in {q \in sol : cost[q] # Inf}} |->
                           (CHOOSE q \in sol : ids[q[1]] = id)[2]],
              failures |-> Cardinality({q \in sol : cost[q] = Inf})] : sol \in sols}

\* BallTracker._predict_all_tracks: only the filters change
_predict_all_tracks(trks, kfs, dts) ==
    [id \in DOMAIN kfs |->
       IF id \in DOMAIN trks /\ trks[id].is_active
       THEN KalmanPredict(kfs[id], dts[id]) ELSE kfs[id]]

\* BallTracker._update_associated_tracks: the filters after the updates
UpdatedFilters(trks, kfs, assoc, dets, gp, gv) ==
    [id \in DOMAIN kfs |->
       IF id \in DOMAIN assoc /\ id \in DOMAIN trks /\ assoc[id] <= Len(dets)
       THEN KalmanUpdate(kfs[id], get_centroid(dets[assoc[id]]), gp[id], gv[id])
       ELSE kfs[id]]

\* matched updates that also move every unmatched active track to the
\* position its filter predicts
_update_associated_tracks_coasting(trks, kfs, kfs2, smoothing, assoc, dets, frame_number) ==
    [id \in DOMAIN trks |->
       IF id \in DOMAIN assoc /\ assoc[id] <= Len(dets)
       THEN LET detection == dets[assoc[id]]
                final_position ==
                    IF id \in DOMAIN kfs /\ smoothing
                    THEN kfs2[id].x ELSE get_centroid(detection)
                t1 == update_position(trks[id], final_position,
                                      detection.confidence, frame_number)
            IN IF id \in DOMAIN kfs
               THEN [t1 EXCEPT !.velocity = <<kfs2[id].v>>] ELSE t1
       ELSE IF id \in DOMAIN kfs /\ trks[id].is_active
            THEN [trks[id] EXCEPT !.current_position = kfs[id].x]
            ELSE trks[id]]

\* matched updates that also revive an inactive track when a detection of
\* its type lies at its recorded position
_update_associated_tracks_reviving(trks, kfs, kfs2, smoothing, assoc, dets, frame_number) ==
    [id \in DOMAIN trks |->
       IF id \in DOMAIN assoc /\ assoc[id] <= Len(dets)
       THEN LET detection == dets[assoc[id]]
                final_position ==
                    IF id \in DOMAIN kfs /\ smoothing
                    THEN kfs2[id].x ELSE get_centroid(detection)
                t1 == update_position(trks[id], final_position,
                                      detection.confidence, frame_number)
            IN IF id \in DOMAIN kfs
               THEN [t1 EXCEPT !.velocity = <<kfs2[id].v>>] ELSE t1
       ELSE LET same == {i \in 1..Len(dets) :
                           /\ get_ball_type(dets[i]) = trks[id].ball_type
                           /\ get_centroid(dets[i]) = trks[id].current_position}
            IN IF ~trks[id].is_active /\ same # {}
               THEN LET detection == dets[CHOOSE i \in same : \A j \in same : i <= j]
                    IN [update_position(trks[id], get_centroid(detection),
                                        detection.confidence, frame_number)
                          EXCEPT !.is_active = TRUE]
               ELSE trks[id]]

\* BallTracker._update_associated_tracks: the tracks after the updates
_update_associated_tracks(trks, kfs, kfs2, smoothing, assoc, dets, frame_number) ==
    [id \in DOMAIN trks |->
       IF id \in DOMAIN assoc /\ assoc[id] <= Len(dets)
       THEN LET detection == dets[assoc[id]]
                final_position ==
                    IF id \in DOMAIN kfs /\ smoothing
                    THEN kfs2[id].x ELSE get_centroid(detection)
                t1 == update_position(trks[id], final_position,
                                      detection.confidence, frame_number)
            IN IF id \in DOMAIN kfs
               THEN [t1 EXCEPT !.velocity = <<kfs2[id].v>>] ELSE t1
       ELSE trks[id]]

\* creation that stops after the first unassociated detection
UnassociatedFirstOnly(assoc, dets) ==
    LET un == SelectSeq([i \in 1..Len(dets) |-> i],
                        LAMBDA i : i \notin {assoc[id] : id \in DOMAIN assoc})
    IN IF un = <<>> THEN <<>> ELSE <<un[1]>>

\* the detection indices _create_new_tracks turns into tracks, in list order
Unassociated(assoc, dets) ==
    SelectSeq([i \in 1..Len(dets) |-> i],
              LAMBDA i : i \notin {assoc[id] : id \in DOMAIN assoc})

\* new ids taken from the loop index instead of the counter
NewTrackIdsByIndex(next_id, assoc, dets) ==
    LET un == Unassociated(assoc, dets)
    IN [id \in {un[k] : k \in 1..Len(un)} |-> id]

\* new ids handed out from the end of the detection list backwards
NewTrackIdsReversed(next_id, assoc, dets) ==
    LET un == Unassociated(assoc, dets)
    IN [id \in {next_id + k - 1 : k \in 1..Len(un)} |-> un[Len(un) - (id - next_id)]]

\* BallTracker._create_new_tracks: new id -> detection index
NewTrackIds(next_id, assoc, dets) ==
    LET un == Unassociated(assoc, dets)
    IN [id \in {next_id + k - 1 : k \in 1..Len(un)} |-> un[id - next_id + 1]]

\* a new track that starts with a zero velocity instead of None
NewTrackZeroVelocity(detection, frame_number) ==
    [ball_type |-> get_ball_type(detection),
     current_position |-> get_centroid(detection),
     trajectory |-> <<get_centroid(detection)>>,
     confidence_history |-> <<detection.confidence>>,
     last_seen_frame |-> frame_number,
     is_active |-> TRUE,
     velocity |-> <<0>>]

\* the TrackedBall built by _create_new_tracks
NewTrack(detection, frame_number) ==
    [ball_type |-> get_ball_type(detection),
     current_position |-> get_centroid(detection),
     trajectory |-> <<get_centroid(detection)>>,
     confidence_history |-> <<detection.confidence>>,
     last_seen_frame |-> frame_number,
     is_active |-> TRUE,
     velocity |-> <<>>]

\* BallTracker._create_new_tracks: the tracks dict afterwards
_create_new_tracks(trks, next_id, assoc, dets, frame_number) ==
    LET new == NewTrackIds(next_id, assoc, dets)
    IN [id \in DOMAIN trks \cup DOMAIN new |->
          IF id \in DOMAIN new THEN NewTrack(dets[new[id]], frame_number)
          ELSE trks[id]]

\* BallTracker._create_new_tracks: the filters dict afterwards
CreatedFilters(kfs, next_id, assoc, dets) ==
    LET new == NewTrackIds(next_id, assoc, dets)
    IN [id \in DOMAIN kfs \cup DOMAIN new |->
          IF id \in DOMAIN new THEN KalmanInit(get_centroid(dets[new[id]]))
          ELSE kfs[id]]

\* tracks_to_remove of _cleanup_lost_tracks
tracks_to_remove(trks, frame_number) ==
    {id \in DOMAIN trks : is_lost(trks[id], frame_number, max_disappeared_frames)}

\* cleanup that waits three tolerances before deleting
_cleanup_lost_tracks_late(trks, frame_number) ==
    LET lost == tracks_to_remove(trks, frame_number)
        marked == [id \in DOMAIN trks |->
                     IF id \in lost THEN [trks[id] EXCEPT !.is_active = FALSE]
                     ELSE trks[id]]
        inactive_threshold == frame_number - (max_disappeared_frames * 3)
        tracks_to_delete == {id \in DOMAIN marked :
                               ~marked[id].is_active
                               /\ marked[id].last_seen_frame < inactive_threshold}
    IN [id \in DOMAIN marked \ tracks_to_delete |-> marked[id]]

\* cleanup that deletes a track as soon as it is lost
_cleanup_lost_tracks_eager(trks, frame_number) ==
    LET lost == tracks_to_remove(trks, frame_number)
    IN [id \in DOMAIN trks \ lost |-> trks[id]]

\* BallTracker._cleanup_lost_tracks: the tracks dict afterwards
_cleanup_lost_tracks(trks, frame_number) ==
    LET lost == tracks_to_remove(trks, frame_number)
        marked == [id \in DOMAIN trks |->
                     IF id \in lost THEN [trks[id] EXCEPT !.is_active = FALSE]
                     ELSE trks[id]]
        inactive_threshold == frame_number - (max_disappeared_frames * 2)
        tracks_to_delete == {id \in DOMAIN marked :
                               ~marked[id].is_active
                               /\ marked[id].last_seen_frame < inactive_threshold}
    IN [id \in DOMAIN marked \ tracks_to_delete |-> marked[id]]

\* cleanup that keeps a track's filter until the track itself is deleted
CleanedFiltersWithTrack(trks, kfs, frame_number) ==
    [id \in DOMAIN kfs \cap DOMAIN _cleanup_lost_tracks(trks, frame_number) |-> kfs[id]]

\* BallTracker._cleanup_lost_tracks: the filters dict afterwards
CleanedFilters(trks, kfs, frame_number) ==
    [id \in DOMAIN kfs \ tracks_to_remove(trks, frame_number) |-> kfs[id]]

\* get_active_tracks without the is_active filter
get_active_tracks_all(trks) == SortedIds(DOMAIN trks)

\* BallTracker.get_active_tracks, as the list of ids
get_active_tracks(trks) == active_track_ids(trks)

\* BallTracker.get_track_by_id: <<>> is None
get_track_by_id(trks, track_id) ==
    IF track_id \in DOMAIN trks THEN <<trks[track_id]>> ELSE <<>>

----------------------------------------------------------------------------
(* TableGeometry and TrajectoryAnalyzer *)

\* TableGeometry.is_point_near_pocket: <<near, index of the first pocket
\* within the threshold (0-based, -1 when none)>>
is_point_near_pocket(cal, point, threshold) ==
    LET pockets == cal.pocket_regions
        hits == {i \in 1..Len(pockets) :
                   distance_to(point, (pockets[i].x1 + pockets[i].x2) \div 2)
                       <= threshold}
    IN IF hits = {} THEN <<FALSE, -1>>
       ELSE <<TRUE, (CHOOSE i \in hits : \A k \in hits : i <= k) - 1>>

\* TrajectoryAnalyzer._is_near_pocket
_is_near_pocket(cal, position) ==
    IF cal = <<>> THEN <<FALSE, -1>>
    ELSE is_point_near_pocket(cal[1], position, PocketThreshold)

\* TrajectoryAnalyzer._is_ball_moving: speed > motion_threshold
_is_ball_moving(ball) ==
    IF ball.velocity = <<>> THEN FALSE
    ELSE Abs(ball.velocity[1]) > MotionThreshold

\* _is_ball_potted that takes a ball at rest for potted when it has no table
\* geometry to ask
_is_ball_potted_uncalibrated(cal, ball) ==
    IF cal = <<>>
    THEN Len(ball.trajectory) >= MinRecent /\ ~_is_ball_moving(ball)
    ELSE LET recent_positions ==
                 IF Len(ball.trajectory) >= RecentWindow
                 THEN LastN(ball.trajectory, RecentWindow) ELSE ball.trajectory
         IN /\ is_point_near_pocket(cal[1], ball.current_position, PocketThreshold)[1]
            /\ Len(recent_positions) >= MinRecent
            /\ \A i \in 1..Len(recent_positions) :
                  is_point_near_pocket(cal[1], recent_positions[i], PocketThreshold)[1]
            /\ ~_is_ball_moving(ball)

\* _is_ball_potted without the speed test
_is_ball_potted_any_speed(cal, ball) ==
    IF cal = <<>> THEN FALSE
    ELSE LET recent_positions ==
                 IF Len(ball.trajectory) >= RecentWindow
                 THEN LastN(ball.trajectory, RecentWindow) ELSE ball.trajectory
         IN /\ is_point_near_pocket(cal[1], ball.current_position, PocketThreshold)[1]
            /\ Len(recent_positions) >= MinRecent
            /\ \A i \in 1..Len(recent_positions) :
                  is_point_near_pocket(cal[1], recent_positions[i], PocketThreshold)[1]

\* TrajectoryAnalyzer._is_ball_potted
_is_ball_potted(cal, ball) ==
    IF cal = <<>> THEN FALSE
    ELSE LET recent_positions ==
                 IF Len(ball.trajectory) >= RecentWindow
                 THEN LastN(ball.trajectory, RecentWindow) ELSE ball.trajectory
         IN /\ is_point_near_pocket(cal[1], ball.current_position, PocketThreshold)[1]
            /\ Len(recent_positions) >= MinRecent
            /\ \A i \in 1..Len(recent_positions) :
                  is_point_near_pocket(cal[1], recent_positions[i], PocketThreshold)[1]
            /\ ~_is_ball_moving(ball)

\* TrajectoryAnalyzer._detect_collision: on a line two successive non-zero
\* displacements enclose 0 or 180 degrees, so the angle exceeds 45 degrees
\* exactly when their signs differ
_detect_collision(ball) ==
    IF Len(ball.trajectory) < RecentWindow THEN FALSE
    ELSE LET recent == LastN(ball.trajectory, RecentWindow)
             steps == [i \in 1..(Len(recent) - 1) |-> recent[i + 1] - recent[i]]
             directions == SelectSeq(steps, LAMBDA d : d # 0)
         IN /\ Len(directions) >= 2
            /\ \E i \in 2..Len(directions) : directions[i - 1] * directions[i] < 0

\* classification that tests for potting before it tests is_active
_determine_ball_state_potted_first(cal, ball) ==
    IF _is_ball_potted(cal, ball) THEN POTTED
    ELSE IF ~ball.is_active THEN LOST
    ELSE IF _is_ball_moving(ball)
         THEN IF _detect_collision(ball) THEN COLLISION ELSE MOVING
    ELSE STATIONARY

\* TrajectoryAnalyzer._determine_ball_state
_determine_ball_state(cal, ball) ==
    IF ~ball.is_active THEN LOST
    ELSE IF _is_ball_potted(cal, ball) THEN POTTED
    ELSE IF _is_ball_moving(ball)
         THEN IF _detect_collision(ball) THEN COLLISION ELSE MOVING
    ELSE STATIONARY

\* the event dict detect_potting_events builds; confidence is the mean of
\* confidence_history[-5:] kept as <<sum, count>>
PottingEvent(cal, id, ball) ==
    [event_type |-> "ball_potted",
     track_id |-> id,
     ball_type |-> ball.ball_type,
     pocket_id |-> _is_near_pocket(cal, ball.current_position)[2],
     position |-> ball.current_position,
     frame |-> ball.last_seen_frame,
     confidence |-> <<SumSeq(LastN(ball.confidence_history, RecentWindow)),
                      Len(LastN(ball.confidence_history, RecentWindow))>>]

\* the loop body's test in detect_potting_events
EmitsPotting(cal, ball) ==
    /\ _determine_ball_state(cal, ball) = POTTED
    /\ _is_near_pocket(cal, ball.current_position)[1]

\* the list detect_potting_events returns for the balls with these ids
PottingEventsOf(cal, trks, ids) ==
    LET hit == SelectSeq(ids, LAMBDA id : EmitsPotting(cal, trks[id]))
    IN [k \in 1..Len(hit) |-> PottingEvent(cal, hit[k], trks[hit[k]])]

\* the test of _detect_ball_collision that accepts the signal of one ball
_detect_ball_collision_either(ball1, ball2) ==
    LET distance == distance_to(ball1.current_position, ball2.current_position)
    IN IF distance > CollisionDistance THEN FALSE
       ELSE _detect_collision(ball1) \/ _detect_collision(ball2)

\* TrajectoryAnalyzer._detect_ball_collision
_detect_ball_collision(ball1, ball2) ==
    LET distance == distance_to(ball1.current_position, ball2.current_position)
    IN IF distance > CollisionDistance THEN FALSE
       ELSE _detect_collision(ball1) /\ _detect_collision(ball2)

\* TrajectoryAnalyzer._estimate_collision_point: (x1 + x2) / 2 as the
\* fraction <<numerator, denominator>>
_estimate_collision_point(ball1, ball2) ==
    <<ball1.current_position + ball2.current_position, 2>>

\* the event dict detect_collision_events builds
CollisionEvent(trks, id1, id2) ==
    [event_type |-> "ball_collision",
     ball1_id |-> id1,
     ball2_id |-> id2,
     ball1_type |-> trks[id1].ball_type,
     ball2_type |-> trks[id2].ball_type,
     collision_point |-> _estimate_collision_point(trks[id1], trks[id2]),
     frame |-> IF trks[id1].last_seen_frame >= trks[id2].last_seen_frame
               THEN trks[id1].last_seen_frame ELSE trks[id2].last_seen_frame]

\* the index pairs (i, j), i < j, in the order of the two nested loops
IndexPairs(n) ==
    SelectSeq([k \in 1..(n * n) |-> <<((k - 1) \div n) + 1, ((k - 1) % n) + 1>>],
              LAMBDA p : p[1] < p[2])

\* the list detect_collision_events returns for the balls with these ids
CollisionEventsOf(trks, ids) ==
    LET hit == SelectSeq(IndexPairs(Len(ids)),
                         LAMBDA p : _detect_ball_collision(trks[ids[p[1]]],
                                                           trks[ids[p[2]]]))
    IN [k \in 1..Len(hit) |-> CollisionEvent(trks, ids[hit[k][1]], ids[hit[k][2]])]

----------------------------------------------------------------------------
(* State machine *)

ZeroStats == [total_tracks_created |-> 0, total_tracks_lost |-> 0,
              active_tracks |-> 0, association_failures |-> 0]

Calibrations == {<<>>,
                 <<[pocket_regions |-> <<>>]>>,
                 <<[pocket_regions |-> <<[x1 |-> -10, x2 |-> 10]>>]>>}

\* BallTracker.__init__ and TrajectoryAnalyzer.__init__
Init ==
    /\ tracks = EmptyMap
    /\ kalman_filters = EmptyMap
    /\ next_track_id = 1
    /\ tracking_stats = ZeroStats
    /\ trajectory_smoothing \in BOOLEAN
    /\ max_disappeared_frames = MaxDisappearedFrames
    /\ frame = 0
    /\ end_frame = MaxFrame
    /\ fed = 0
    /\ returned = <<>>
    /\ detections = <<>>
    /\ associations = EmptyMap
    /\ created = EmptyMap
    /\ predicted = EmptyMap
    /\ issued = {}
    /\ epoch = 0
    /\ calibration_data = <<>>
    /\ detected_events = <<>>
    /\ ball_states = EmptyMap
    /\ potting_events = <<>>
    /\ analyzed = TRUE
    /\ collision_events = <<>>
    /\ collisions_checked = TRUE
    /\ raised = FALSE

\* the time steps predict() can see: dt only matters to a filter that moves
DtChoices(kf) == IF kf.v = 0 THEN {0} ELSE 0..MaxDt

\* the gains update() can apply: they only matter when the innovation is not 0
GainChoices(kf, z, gains) == IF z = kf.x THEN {CHOOSE g \in gains : TRUE} ELSE gains

\* BallTracker.update(detections, frame_number) for a list drawn from lists
UpdateWith(lists) ==
    \E dets \in {l \in lists : fed + Len(l) <= MaxFed}, f \in (frame + 1)..end_frame :
    \E dts \in [{id \in DOMAIN kalman_filters :
                   id \in DOMAIN tracks /\ tracks[id].is_active} -> 0..MaxDt] :
      /\ \A id \in DOMAIN dts : dts[id] \in DtChoices(kalman_filters[id])
      /\ LET kf1 == _predict_all_tracks(tracks, kalman_filters, dts) IN
         \E res \in _associate_detections_to_tracks(tracks, dets) :
         \E gp \in [DOMAIN res.assoc -> PosGains], gv \in [DOMAIN res.assoc -> VelGains] :
           /\ \A id \in DOMAIN res.assoc :
                /\ gp[id] \in GainChoices(kf1[id], get_centroid(dets[res.assoc[id]]), PosGains)
                /\ gv[id] \in GainChoices(kf1[id], get_centroid(dets[res.assoc[id]]), VelGains)
           /\ LET empty == Len(dets) = 0
                  assoc == IF empty THEN EmptyMap ELSE res.assoc
                  kf2 == UpdatedFilters(tracks, kf1, assoc, dets, gp, gv)
                  t2 == _update_associated_tracks(tracks, kf1, kf2, trajectory_smoothing,
                                                  assoc, dets, f)
                  new == NewTrackIds(next_track_id, assoc, dets)
                  t3 == _create_new_tracks(t2, next_track_id, assoc, dets, f)
                  kf3 == CreatedFilters(kf2, next_track_id, assoc, dets)
                  t4 == _cleanup_lost_tracks(t3, f)
                  kf4 == CleanedFilters(t3, kf3, f)
                  lost == Cardinality(tracks_to_remove(t3, f))
              IN /\ fed' = fed + Len(dets)
                 /\ tracks' = t4
                 /\ kalman_filters' = kf4
                 /\ next_track_id' = next_track_id + Cardinality(DOMAIN new)
                 /\ tracking_stats' =
                      [total_tracks_created |->
                           tracking_stats.total_tracks_created + Cardinality(DOMAIN new),
                       total_tracks_lost |-> tracking_stats.total_tracks_lost + lost,
                       association_failures |->
                           tracking_stats.association_failures
                               + (IF empty THEN 0 ELSE res.failures),
                       active_tracks |->
                           IF empty THEN tracking_stats.active_tracks
                           ELSE Len(get_active_tracks(t4))]
                 /\ frame' = f
                 /\ returned' = get_active_tracks(t4)
                 /\ detections' = dets
                 /\ associations' = assoc
                 /\ created' = new
                 /\ predicted' = [id \in DOMAIN dts |-> kf1[id].x]
                 /\ issued' = issued \cup {<<epoch, id>> : id \in DOMAIN new}
                 /\ analyzed' = FALSE
                 /\ collisions_checked' = FALSE
                 /\ raised' = FALSE
                 /\ UNCHANGED <<trajectory_smoothing, max_disappeared_frames, end_frame,
                                epoch, calibration_data, detected_events,
                                ball_states, potting_events, collision_events>>

\* the filters _predict_all_tracks calls predict() on
PredictedIds(trks, kfs) ==
    {id \in DOMAIN kfs : id \in DOMAIN trks /\ trks[id].is_active}

\* BallTracker.update as a function of the tracker's state, its arguments,
\* the time steps time.time() gives the filters, the solver's answer and the
\* gains: the tracks dict afterwards, the returned list and the associations
update_outcome(trks, kfs, next_id, smoothing, dets, f, dts, assoc, gp, gv) ==
    LET kf1 == _predict_all_tracks(trks, kfs, dts)
        kf2 == UpdatedFilters(trks, kf1, assoc, dets, gp, gv)
        t2 == _update_associated_tracks(trks, kf1, kf2, smoothing, assoc, dets, f)
        t3 == _create_new_tracks(t2, next_id, assoc, dets, f)
        t4 == _cleanup_lost_tracks(t3, f)
    IN [tracks |-> t4,
        returned |-> get_active_tracks(t4),
        associations |-> assoc]

\* BallTracker.update on the detector's whole vocabulary
update == UpdateWith(DetectionLists)

\* reset_tracking that forgets to clear the filters
reset_tracking_keep_filters ==
    /\ epoch < MaxResets
    /\ tracks' = EmptyMap
    /\ next_track_id' = 1
    /\ tracking_stats' = ZeroStats
    /\ epoch' = epoch + 1
    /\ returned' = <<>>
    /\ detections' = <<>>
    /\ associations' = EmptyMap
    /\ created' = EmptyMap
    /\ predicted' = EmptyMap
    /\ UNCHANGED <<kalman_filters, trajectory_smoothing, max_disappeared_frames,
                   frame, end_frame, fed, issued, calibration_data,
                   detected_events, ball_states, potting_events, analyzed,
                   collision_events, collisions_checked, raised>>

\* BallTracker.reset_tracking()
reset_tracking ==
    /\ epoch < MaxResets
    /\ tracks' = EmptyMap
    /\ kalman_filters' = EmptyMap
    /\ next_track_id' = 1
    /\ tracking_stats' = ZeroStats
    /\ epoch' = epoch + 1
    /\ returned' = <<>>
    /\ detections' = <<>>
    /\ associations' = EmptyMap
    /\ created' = EmptyMap
    /\ predicted' = EmptyMap
    /\ UNCHANGED <<trajectory_smoothing, max_disappeared_frames, frame, end_frame,
                   fed, issued,
                   calibration_data, detected_events, ball_states, potting_events,
                   analyzed, collision_events, collisions_checked, raised>>

\* the values of the BallType enumeration
BallTypeValues == 0..7

\* Detection.get_ball_type raises ValueError: BallType(class_id) of no member
get_ball_type_raises(d) == d.class_id \notin BallTypeValues

\* what the detector can hand over when it reports a class the enumeration
\* does not have
UnknownClassLists ==
    {l \in UNION {[1..n -> {MkDetection(0, CUE_BALL, 8), MkDetection(0, 8, 9)}] :
                     n \in 1..MaxDets} :
        \E j \in 1..Len(l) : get_ball_type_raises(l[j])}

\* BallTracker.update(detections, frame_number) on a list that holds a
\* detection of an unknown class: get_ball_type() raises in the cost matrix
\* loop when there is an active track, else in _create_new_tracks after the
\* detections before it have become tracks and the id counter has advanced
update_unknown_class ==
    \E dets \in {l \in UnknownClassLists : fed + Len(l) <= MaxFed},
       f \in (frame + 1)..end_frame :
    \E dts \in [PredictedIds(tracks, kalman_filters) -> 0..MaxDt] :
      /\ \A id \in DOMAIN dts : dts[id] \in DtChoices(kalman_filters[id])
      /\ LET kf1 == _predict_all_tracks(tracks, kalman_filters, dts)
             b == CHOOSE j \in 1..Len(dets) :
                     /\ get_ball_type_raises(dets[j])
                     /\ \A k \in 1..(j - 1) : ~get_ball_type_raises(dets[k])
             in_cost_matrix == active_track_ids(tracks) # <<>>
             prefix == IF in_cost_matrix THEN <<>> ELSE SubSeq(dets, 1, b - 1)
             new == NewTrackIds(next_track_id, EmptyMap, prefix)
         IN /\ tracks' = _create_new_tracks(tracks, next_track_id, EmptyMap, prefix, f)
            /\ kalman_filters' = CreatedFilters(kf1, next_track_id, EmptyMap, prefix)
            /\ next_track_id' =
                 IF in_cost_matrix THEN next_track_id
                 ELSE next_track_id + Len(prefix) + 1
            /\ tracking_stats' =
                 [tracking_stats EXCEPT
                    !.total_tracks_created = tracking_stats.total_tracks_created
                                                + Len(prefix)]
            /\ created' = new
            /\ issued' = issued \cup {<<epoch, id>> : id \in DOMAIN new}
            /\ predicted' = [id \in DOMAIN dts |-> kf1[id].x]
            /\ fed' = fed + Len(dets)
            /\ frame' = f
            /\ detections' = dets
            /\ associations' = EmptyMap
            /\ returned' = <<>>
            /\ raised' = TRUE
            /\ UNCHANGED <<trajectory_smoothing, max_disappeared_frames, end_frame,
                           epoch, calibration_data, detected_events, ball_states,
                           potting_events, analyzed, collision_events,
                           collisions_checked>>

\* TrajectoryAnalyzer.detect_potting_events(tracked_balls), called once per
\* frame on the active tracks or on every live track
detect_potting_events ==
    /\ ~analyzed
    /\ \E ids \in {get_active_tracks(tracks), SortedIds(DOMAIN tracks)} :
         LET events == PottingEventsOf(calibration_data, tracks, ids)
         IN /\ potting_events' = events
            /\ detected_events' = detected_events \o events
            /\ ball_states' =
                 [id \in DOMAIN ball_states \cup Range(ids) |->
                    IF id \in Range(ids)
                    THEN _determine_ball_state(calibration_data, tracks[id])
                    ELSE ball_states[id]]
    /\ analyzed' = TRUE
    /\ UNCHANGED <<tracks, kalman_filters, next_track_id, tracking_stats,
                   trajectory_smoothing, max_disappeared_frames, frame, end_frame,
                   fed, returned, detections, associations, created, predicted,
                   issued, epoch, calibration_data, collision_events,
                   collisions_checked, raised>>

\* TrajectoryAnalyzer.detect_collision_events(tracked_balls), called on the
\* frame's tracks right after detect_potting_events
detect_collision_events ==
    /\ analyzed
    /\ ~collisions_checked
    /\ \E ids \in {get_active_tracks(tracks), SortedIds(DOMAIN tracks)} :
         LET events == CollisionEventsOf(tracks, ids)
         IN /\ collision_events' = events
            /\ detected_events' = detected_events \o events
    /\ collisions_checked' = TRUE
    /\ UNCHANGED <<tracks, kalman_filters, next_track_id, tracking_stats,
                   trajectory_smoothing, max_disappeared_frames, frame, end_frame,
                   fed, returned, detections, associations, created, predicted,
                   issued, epoch, calibration_data, ball_states, potting_events,
                   analyzed, raised>>

Next == update

Spec == Init /\ [][Next]_vars

----------------------------------------------------------------------------
(* A session with resets, one detection per frame at most *)

SingleLists == UNION {[1..n -> Detection] : n \in 0..1}

\* BallTracker.update on at most one detection
update_single == UpdateWith(SingleLists)

NextSession == update_single \/ reset_tracking

SpecSession == Init /\ [][NextSession]_vars

----------------------------------------------------------------------------
(* The tracker feeding the analyzer: a cue ball on or near the pocket *)

PocketDetection == {MkDetection(0, CUE_BALL, 8), MkDetection(20, CUE_BALL, 9)}

PocketLists == UNION {[1..n -> PocketDetection] : n \in 0..1}

\* BallTracker.update on detections around the pocket
update_near_pocket == UpdateWith(PocketLists)

InitAnalysis ==
    /\ tracks = EmptyMap
    /\ kalman_filters = EmptyMap
    /\ next_track_id = 1
    /\ tracking_stats = ZeroStats
    /\ trajectory_smoothing \in BOOLEAN
    /\ max_disappeared_frames = MaxDisappearedFrames
    /\ frame = 0
    /\ end_frame = MaxFrame
    /\ fed = 0
    /\ returned = <<>>
    /\ detections = <<>>
    /\ associations = EmptyMap
    /\ created = EmptyMap
    /\ predicted = EmptyMap
    /\ issued = {}
    /\ epoch = 0
    /\ calibration_data \in Calibrations
    /\ detected_events = <<>>
    /\ ball_states = EmptyMap
    /\ potting_events = <<>>
    /\ analyzed = TRUE
    /\ collision_events = <<>>
    /\ collisions_checked = TRUE
    /\ raised = FALSE

NextAnalysis == update_near_pocket \/ detect_potting_events

SpecAnalysis == InitAnalysis /\ [][NextAnalysis]_vars

----------------------------------------------------------------------------
(* A tracker that has followed one cue ball for TrajCap - 1 or TrajCap      *)
(* frames as it moved between x = 0 and x = 20                              *)

LongLens == {TrajCap - 1, TrajCap}

LongX(i) == IF i % 2 = 1 THEN 0 ELSE 20

LongConfidence(i) == IF i % 2 = 1 THEN 8 ELSE 9

LongTrack(n) ==
    [ball_type |-> CUE_BALL,
     current_position |-> LongX(n),
     trajectory |-> [i \in 1..n |-> LongX(i)],
     confidence_history |-> [i \in 1..n |-> LongConfidence(i)],
     last_seen_frame |-> n,
     is_active |-> TRUE,
     velocity |-> <<0>>]

InitLong ==
    \E n \in LongLens :
    /\ tracks = [id \in {1} |-> LongTrack(n)]
    /\ kalman_filters = [id \in {1} |-> [x |-> LongX(n), v |-> 0]]
    /\ next_track_id = 2
    /\ tracking_stats = [ZeroStats EXCEPT !.total_tracks_created = 1,
                                          !.active_tracks = 1]
    /\ trajectory_smoothing \in BOOLEAN
    /\ max_disappeared_frames = MaxDisappearedFrames
    /\ frame = n
    /\ end_frame = n + MaxFrame
    /\ fed = 0
    /\ returned = <<1>>
    /\ detections = <<MkDetection(LongX(n), CUE_BALL, LongConfidence(n))>>
    /\ associations = [id \in {1} |-> 1]
    /\ created = EmptyMap
    /\ predicted = [id \in {1} |-> LongX(n - 1)]
    /\ issued = {<<0, 1>>}
    /\ epoch = 0
    /\ calibration_data = <<>>
    /\ detected_events = <<>>
    /\ ball_states = EmptyMap
    /\ potting_events = <<>>
    /\ analyzed = TRUE
    /\ collision_events = <<>>
    /\ collisions_checked = TRUE
    /\ raised = FALSE

SpecLong == InitLong /\ [][NextSession]_vars

----------------------------------------------------------------------------
(* A tracker configured with a longer tolerance, on a longer video: a track *)
(* can be inactive and still inside twice the tolerance when a frame comes  *)

InitGrace ==
    /\ tracks = EmptyMap
    /\ kalman_filters = EmptyMap
    /\ next_track_id = 1
    /\ tracking_stats = ZeroStats
    /\ trajectory_smoothing \in BOOLEAN
    /\ max_disappeared_frames = MaxDisappearedFrames + 1
    /\ frame = 0
    /\ end_frame = MaxFrame + 1
    /\ fed = 0
    /\ returned = <<>>
    /\ detections = <<>>
    /\ associations = EmptyMap
    /\ created = EmptyMap
    /\ predicted = EmptyMap
    /\ issued = {}
    /\ epoch = 0
    /\ calibration_data = <<>>
    /\ detected_events = <<>>
    /\ ball_states = EmptyMap
    /\ potting_events = <<>>
    /\ analyzed = TRUE
    /\ collision_events = <<>>
    /\ collisions_checked = TRUE
    /\ raised = FALSE

SpecGrace == InitGrace /\ [][NextSession]_vars

----------------------------------------------------------------------------
(* A detector that sometimes reports a class id outside the enumeration *)

NextUnknown == update_single \/ update_unknown_class

SpecUnknown == Init /\ [][NextUnknown]_vars

----------------------------------------------------------------------------
(* The analyzer on a tracker that has followed a cue ball and a red for     *)
(* some frames: every kind of recent history the classification tells apart *)

\* recorded positions of the cue ball: on the pocket (x = 0), next to it
\* (x = 20), away from it (x = 80), at rest, rolling on, and turning back
CueHistories ==
    {<<0>>, <<0, 0>>, <<0, 0, 0>>, <<80, 0, 0>>, <<80, 0, 0, 0, 0, 0>>,
     <<0, 20, 0, 20, 0>>, <<0, 20, 40, 60, 80>>, <<80, 80, 80>>,
     <<80, 60, 80, 60, 80>>}

RedHistories ==
    {<<0, 0, 0>>, <<20, 0, 20, 0, 20>>, <<80, 60, 80, 60, 80>>}

\* the velocity a track with this history can carry: None after a single
\* observation, else the filter's estimate (at rest, at the motion
\* threshold, above it)
HistoryVelocities(h) ==
    IF Len(h) = 1 THEN {<<>>} ELSE {<<0>>, <<MotionThreshold>>, <<2 * MotionThreshold>>}

\* a track with this history, seen in frame f when active and lost
\* max_disappeared_frames + 1 frames before f when not
HistoryTrack(type, h, vel, active, f) ==
    [ball_type |-> type,
     current_position |-> h[Len(h)],
     trajectory |-> h,
     confidence_history |-> [i \in 1..Len(h) |-> 8],
     last_seen_frame |-> IF active THEN f ELSE f - (MaxDisappearedFrames + 1),
     is_active |-> active,
     velocity |-> vel]

InitClassify ==
    \E h1 \in CueHistories, h2 \in RedHistories, a1 \in BOOLEAN, a2 \in BOOLEAN :
    \E v1 \in HistoryVelocities(h1), v2 \in HistoryVelocities(h2) :
    LET f == MaxFrame + 4
        t == [id \in {1, 2} |->
                IF id = 1 THEN HistoryTrack(CUE_BALL, h1, v1, a1, f)
                ELSE HistoryTrack(RED, h2, v2, a2, f)]
        act == active_track_ids(t)
    IN
    /\ tracks = t
    /\ kalman_filters =
         [id \in Range(act) |->
            [x |-> t[id].current_position,
             v |-> IF t[id].velocity = <<>> THEN 0 ELSE t[id].velocity[1]]]
    /\ next_track_id = 3
    /\ tracking_stats =
         [total_tracks_created |-> 2,
          total_tracks_lost |-> 2 - Len(act),
          active_tracks |-> Len(act),
          association_failures |-> 0]
    /\ trajectory_smoothing = FALSE
    /\ max_disappeared_frames = MaxDisappearedFrames
    /\ frame = f
    /\ end_frame = f
    /\ fed = 0
    /\ returned = act
    /\ detections =
         [k \in 1..Len(act) |->
            MkDetection(t[act[k]].current_position, t[act[k]].ball_type, 8)]
    /\ associations =
         [id \in {i \in Range(act) : Len(t[i].trajectory) > 1} |->
            CHOOSE k \in 1..Len(act) : act[k] = id]
    /\ created =
         [id \in {i \in Range(act) : Len(t[i].trajectory) = 1} |->
            CHOOSE k \in 1..Len(act) : act[k] = id]
    /\ predicted =
         [id \in {i \in Range(act) : Len(t[i].trajectory) > 1} |->
            t[id].current_position]
    /\ issued = {<<0, 1>>, <<0, 2>>}
    /\ epoch = 0
    /\ calibration_data \in Calibrations
    /\ detected_events = <<>>
    /\ ball_states = EmptyMap
    /\ potting_events = <<>>
    /\ analyzed = FALSE
    /\ collision_events = <<>>
    /\ collisions_checked = FALSE
    /\ raised = FALSE

NextClassify == detect_potting_events \/ detect_collision_events

SpecClassify == InitClassify /\ [][NextClassify]_vars

----------------------------------------------------------------------------
(* Properties *)

\* a step of update(): frame numbers strictly increase
IsUpdate == frame' # frame

\* the ids a step of update() neither creates nor removes
Kept == DOMAIN tracks \cap DOMAIN tracks'

\* C1. Identity persistence: a lone active track that has been associated at
\* least twice, then missed for one or more frames, is returned by every
\* update() of the gap that stays within max_disappeared_frames, and a single
\* detection of its type within max_tracking_distance of the position its
\* filter predicts for the frame is associated with it: same id, returned,
\* no new track.
C1_IdentityPersistence ==
    [][IsUpdate =>
        \A id \in DOMAIN tracks :
            (DOMAIN tracks = {id} /\ tracks[id].is_active
             /\ Len(tracks[id].trajectory) >= 2) =>
               /\ (Len(detections') = 0
                   /\ frame' - tracks[id].last_seen_frame <= max_disappeared_frames)
                      => id \in Range(returned')
               /\ (Len(detections') = 1
                   /\ Len(detections) = 0
                   /\ frame' = frame + 1
                   /\ get_ball_type(detections'[1]) = tracks[id].ball_type
                   /\ id \in DOMAIN predicted'
                   /\ distance_to(predicted'[id], get_centroid(detections'[1]))
                          <= MaxTrackingDistance)
                      => /\ id \in DOMAIN associations'
                         /\ id \in Range(returned')
                         /\ created' = EmptyMap]_vars

\* C2. Retirement: after update(detections, f) every track left unassociated
\* with f - last_seen_frame > 2 * max_disappeared_frames is gone from the live
\* set, from get_active_tracks() and from get_track_by_id().
C2_Retirement ==
    [][IsUpdate =>
        /\ \A id \in DOMAIN tracks :
              (id \notin DOMAIN associations'
               /\ frame' - tracks[id].last_seen_frame > 2 * max_disappeared_frames)
                  => /\ get_track_by_id(tracks', id) = <<>>
                     /\ id \notin Range(get_active_tracks(tracks'))
                     /\ id \notin Range(returned')
        /\ \A id \in DOMAIN tracks' :
              frame' - tracks'[id].last_seen_frame <= 2 * max_disappeared_frames]_vars

\* a track the tracker created since the last reset and has removed again
C2_Witness ==
    \E p \in issued : p[1] = epoch /\ p[2] \notin DOMAIN tracks

C4_TypeIsolation ==
    [][IsUpdate =>
        /\ \A id \in DOMAIN associations' :
              /\ id \in DOMAIN tracks
              /\ tracks[id].ball_type = get_ball_type(detections'[associations'[id]])
        /\ \A id \in Kept : tracks'[id].ball_type = tracks[id].ball_type
        /\ \A id \in DOMAIN created' :
              tracks'[id].ball_type = get_ball_type(detections'[created'[id]])]_vars

\* an existing track that was offered a detection of another type within
\* max_tracking_distance, in a frame where some track was associated
C4_Witness ==
    /\ associations # EmptyMap
    /\ \E id \in DOMAIN tracks, j \in 1..Len(detections) :
          /\ tracks[id].last_seen_frame < frame
          /\ tracks[id].is_active
          /\ get_ball_type(detections[j]) # tracks[id].ball_type
          /\ distance_to(tracks[id].current_position, get_centroid(detections[j]))
                 <= MaxTrackingDistance

\* C5 as stated. Distance threshold: no detection is associated with a track
\* farther than max_tracking_distance from it, and a detection of a track's
\* type beyond that distance creates a new track with another id while the
\* original track stays in the returned set.
C5_DistanceThreshold_Stated ==
    [][IsUpdate =>
        /\ \A id \in DOMAIN associations' :
              distance_to(tracks[id].current_position,
                          get_centroid(detections'[associations'[id]]))
                  <= MaxTrackingDistance
        /\ \A id \in DOMAIN tracks, j \in 1..Len(detections') :
              (tracks[id].is_active
               /\ get_ball_type(detections'[j]) = tracks[id].ball_type
               /\ distance_to(tracks[id].current_position, get_centroid(detections'[j]))
                      > MaxTrackingDistance)
                  => /\ \E nid \in DOMAIN created' : created'[nid] = j /\ nid # id
                     /\ id \in Range(returned')]_vars

\* C5 as amended. No detection is associated with a track farther than
\* max_tracking_distance from it; a detection farther than that from every
\* active track of its type creates a new track with an id no existing track
\* has, and each of those tracks stays in the returned set as long as it is
\* associated in the frame or f - last_seen_frame <= max_disappeared_frames.
C5_DistanceThreshold ==
    [][IsUpdate =>
        /\ \A id \in DOMAIN associations' :
              distance_to(tracks[id].current_position,
                          get_centroid(detections'[associations'[id]]))
                  <= MaxTrackingDistance
        /\ \A j \in 1..Len(detections') :
              (\A id \in DOMAIN tracks :
                  (tracks[id].is_active
                   /\ get_ball_type(detections'[j]) = tracks[id].ball_type)
                      => distance_to(tracks[id].current_position,
                                     get_centroid(detections'[j]))
                             > MaxTrackingDistance)
                  => /\ \E nid \in DOMAIN created' :
                          created'[nid] = j /\ nid \notin DOMAIN tracks
                     /\ \A id \in DOMAIN tracks :
                          (tracks[id].is_active
                           /\ get_ball_type(detections'[j]) = tracks[id].ball_type
                           /\ (id \in DOMAIN associations'
                               \/ frame' - tracks[id].last_seen_frame
                                      <= max_disappeared_frames))
                              => id \in Range(returned')]_vars

\* a returned older track and a new track of its type created farther than
\* max_tracking_distance from it
C5_Witness ==
    \E id \in Range(returned), nid \in DOMAIN created :
        /\ id \notin DOMAIN created
        /\ id \notin DOMAIN associations
        /\ tracks[id].ball_type = get_ball_type(detections[created[nid]])
        /\ distance_to(tracks[id].current_position,
                       get_centroid(detections[created[nid]])) > MaxTrackingDistance

\* C6. One-to-one association: in one update() no detection index is
\* associated with two tracks, every associated index is a detection of the
\* frame, and no trajectory grows by more than one entry.
C6_OneToOne ==
    [][IsUpdate =>
        /\ \A a, b \in DOMAIN associations' :
              a # b => associations'[a] # associations'[b]
        /\ \A a \in DOMAIN associations' : associations'[a] \in 1..Len(detections')
        /\ \A id \in Kept :
              Len(tracks'[id].trajectory) <= Len(tracks[id].trajectory) + 1]_vars

\* two tracks associated in the same frame
C6_Witness == Cardinality(DOMAIN associations) >= 2

\* C7 as stated. No id is ever assigned twice over update() and
\* reset_tracking() calls.
C7_NoReuse_Stated ==
    [][IsUpdate =>
        \A id \in DOMAIN created' : id \notin {p[2] : p \in issued}]_vars

\* C7 as amended. Between two reset_tracking() calls (or construction and the
\* first reset) no id is assigned twice; reset_tracking() restarts the ids.
C7_NoReuse ==
    [][IsUpdate =>
        \A id \in DOMAIN created' :
            /\ <<epoch, id>> \notin issued
            /\ id \notin DOMAIN tracks]_vars

\* after a reset, an id of the first run has been assigned again
C7_Witness ==
    /\ epoch >= 1
    /\ \E id \in DOMAIN tracks : <<0, id>> \in issued /\ <<epoch, id>> \in issued

\* C8. Trajectory length bound: a trajectory never has more than 100 entries,
\* and the append that makes it exceed 100 leaves exactly the 50 most recent
\* positions in their original order.
C8_TrajectoryBound ==
    [][\A id \in DOMAIN tracks' :
          /\ Len(tracks'[id].trajectory) <= TrajCap
          /\ (IsUpdate /\ id \in DOMAIN tracks /\ id \in DOMAIN associations'
              /\ Len(tracks[id].trajectory) = TrajCap)
                 => /\ Len(tracks'[id].trajectory) = TrajKeep
                    /\ \A i \in 1..(TrajKeep - 1) :
                          tracks'[id].trajectory[i]
                              = tracks[id].trajectory[TrajCap - TrajKeep + 1 + i]
                    /\ tracks'[id].trajectory[TrajKeep]
                          = tracks'[id].current_position]_vars

\* a trajectory that has just been cut
C8_Witness ==
    \E id \in DOMAIN tracks :
        /\ Len(tracks[id].trajectory) = TrajKeep
        /\ tracks[id].last_seen_frame > TrajCap

\* C9. trajectory and confidence_history have the same length in every
\* state; a new track starts with its detection's confidence, a matched
\* update appends the matched detection's confidence, and both lists keep or
\* drop the same older entries, so the i-th confidence stays with the i-th
\* point.
C9_ParallelHistories ==
    [][\A id \in DOMAIN tracks' :
          /\ Len(tracks'[id].trajectory) = Len(tracks'[id].confidence_history)
          /\ (IsUpdate /\ id \in DOMAIN created')
                => tracks'[id].confidence_history
                       = <<detections'[created'[id]].confidence>>
          /\ (IsUpdate /\ id \in DOMAIN tracks /\ id \in DOMAIN associations')
                => LET n == Len(tracks'[id].confidence_history)
                       oldc == tracks[id].confidence_history
                       oldt == tracks[id].trajectory
                   IN /\ n >= 1
                      /\ tracks'[id].confidence_history[n]
                            = detections'[associations'[id]].confidence
                      /\ \A i \in 1..(n - 1) :
                            /\ tracks'[id].confidence_history[i]
                                  = oldc[Len(oldc) - (n - 1) + i]
                            /\ tracks'[id].trajectory[i]
                                  = oldt[Len(oldt) - (n - 1) + i]]_vars

\* a track matched again after its histories were cut
C9_Witness ==
    \E id \in DOMAIN associations :
        /\ id \in DOMAIN tracks
        /\ Len(tracks[id].confidence_history) = TrajKeep + 1
        /\ tracks[id].last_seen_frame > TrajCap

\* C10. Potting idempotence: a detect_potting_events() call that classifies
\* a track POTTED when the previous call had already classified it POTTED
\* emits no potting event for that track.
C10_PottingIdempotence ==
    [][(analyzed' /\ ~analyzed) =>
        \A id \in DOMAIN ball_states \cap DOMAIN ball_states' :
            (ball_states[id] = POTTED /\ ball_states'[id] = POTTED)
                => /\ \A k \in 1..Len(potting_events') :
                         potting_events'[k].track_id # id
                   /\ \A k \in (Len(detected_events) + 1)..Len(detected_events') :
                         detected_events'[k].track_id # id]_vars

\* C11. Determinism: two trackers in the same track and estimator state that
\* receive update() with the same detection list and frame number, whose
\* solver gives the same answer and whose filters apply the same gains,
\* produce the same tracks (ids, positions, velocities), returned list and
\* associations, whatever wall-clock time step each of them reads (one reads 0, the
\* other any step).
C11_Determinism ==
    [][IsUpdate =>
        \A res \in _associate_detections_to_tracks(tracks, detections') :
        \A gp \in [DOMAIN res.assoc -> PosGains], gv \in [DOMAIN res.assoc -> VelGains] :
        \A dtB \in [PredictedIds(tracks, kalman_filters) -> 0..MaxDt] :
            LET dtA == [id \in PredictedIds(tracks, kalman_filters) |-> 0]
            IN update_outcome(tracks, kalman_filters, next_track_id,
                              trajectory_smoothing, detections', frame',
                              dtA, res.assoc, gp, gv)
             = update_outcome(tracks, kalman_filters, next_track_id,
                              trajectory_smoothing, detections', frame',
                              dtB, res.assoc, gp, gv)]_vars

\* C12. Grace-window re-acquisition: a track that is inactive and still in
\* the live set when update(detections, f) is called with
\* max_disappeared_frames < f - last_seen_frame <= 2 * max_disappeared_frames,
\* and that is the only track of its type, is associated with a lone
\* detection of its type within max_tracking_distance of it: it keeps its
\* id and no new track is created.
C12_GraceReacquisition ==
    [][IsUpdate =>
        \A id \in DOMAIN tracks :
            (/\ ~tracks[id].is_active
             /\ frame' - tracks[id].last_seen_frame > max_disappeared_frames
             /\ frame' - tracks[id].last_seen_frame <= 2 * max_disappeared_frames
             /\ \A other \in DOMAIN tracks \ {id} :
                   tracks[other].ball_type # tracks[id].ball_type
             /\ Len(detections') = 1
             /\ get_ball_type(detections'[1]) = tracks[id].ball_type
             /\ distance_to(tracks[id].current_position, get_centroid(detections'[1]))
                    <= MaxTrackingDistance)
                => /\ id \in DOMAIN associations'
                   /\ id \in DOMAIN tracks'
                   /\ created' = EmptyMap]_vars

\* C13. Matched update: a track associated with a detection in
\* update(detections, f) keeps its id and type, its trajectory and
\* confidence_history each gain one entry (or are cut to 50 at the cap),
\* last_seen_frame becomes f, its velocity is defined, and it is active and
\* in the returned list.
C13_MatchedUpdate ==
    [][IsUpdate =>
        \A id \in DOMAIN associations' :
            /\ id \in DOMAIN tracks
            /\ id \in DOMAIN tracks'
            /\ tracks'[id].ball_type = tracks[id].ball_type
            /\ LET n == Len(tracks[id].trajectory)
                   c == Len(tracks[id].confidence_history)
               IN /\ Len(tracks'[id].trajectory)
                        = (IF n + 1 > TrajCap THEN TrajKeep ELSE n + 1)
                  /\ Len(tracks'[id].confidence_history)
                        = (IF n + 1 > TrajCap THEN TrajKeep ELSE c + 1)
            /\ tracks'[id].last_seen_frame = frame'
            /\ tracks'[id].velocity # <<>>
            /\ tracks'[id].is_active
            /\ id \in Range(returned')]_vars

\* a track created in one frame and matched in the next: trajectory length 2
C13_Witness ==
    \E id \in DOMAIN associations :
        /\ id \in DOMAIN tracks
        /\ Len(tracks[id].trajectory) = 2
        /\ tracks[id].trajectory[2] = tracks[id].current_position
        /\ tracks[id].last_seen_frame = frame

\* C14. Track creation: in update(detections, f) every detection that is not
\* associated creates exactly one new track, with an id no track had, that is
\* active and returned, has the detection's type, the detection's centroid as
\* position and only trajectory entry, last_seen_frame = f and an estimator
\* of its own seeded there; a new track is never associated in the frame that
\* creates it, so n detections arriving when no track exists create n tracks.
C14_TrackCreation ==
    [][IsUpdate =>
        /\ \A j \in 1..Len(detections') :
              (\A id \in DOMAIN associations' : associations'[id] # j)
                 => Cardinality({nid \in DOMAIN created' : created'[nid] = j}) = 1
        /\ \A nid \in DOMAIN created' :
              LET d == detections'[created'[nid]]
              IN /\ nid \notin DOMAIN tracks
                 /\ nid \notin DOMAIN associations'
                 /\ \A id \in DOMAIN associations' : associations'[id] # created'[nid]
                 /\ nid \in DOMAIN tracks'
                 /\ tracks'[nid].is_active
                 /\ nid \in Range(returned')
                 /\ tracks'[nid].ball_type = get_ball_type(d)
                 /\ tracks'[nid].current_position = get_centroid(d)
                 /\ tracks'[nid].trajectory = <<get_centroid(d)>>
                 /\ tracks'[nid].last_seen_frame = frame'
                 /\ nid \in DOMAIN kalman_filters'
                 /\ kalman_filters'[nid] = KalmanInit(get_centroid(d))
        /\ (DOMAIN tracks = {})
              => /\ Cardinality(DOMAIN created') = Len(detections')
                 /\ Cardinality(DOMAIN tracks') = Len(detections')]_vars

\* two detections of one type within max_tracking_distance of each other
\* that arrived when no track existed, and the two tracks they created
C14_Witness ==
    /\ Len(detections) = 2
    /\ Cardinality(DOMAIN created) = 2
    /\ DOMAIN tracks = DOMAIN created
    /\ get_ball_type(detections[1]) = get_ball_type(detections[2])
    /\ get_centroid(detections[1]) # get_centroid(detections[2])
    /\ distance_to(get_centroid(detections[1]), get_centroid(detections[2]))
           <= MaxTrackingDistance

\* C15. Frames without a match leave track data unchanged: a track that
\* update() does not associate and does not remove keeps its type, position,
\* trajectory, confidence_history, velocity and last_seen_frame (only
\* is_active may change); an update() with an empty detection list associates
\* nothing, creates nothing and returns the active tracks.
C15_UnmatchedUnchanged ==
    [][IsUpdate =>
        /\ \A id \in Kept :
              id \notin DOMAIN associations'
                 => tracks'[id] = [tracks[id] EXCEPT !.is_active = tracks'[id].is_active]
        /\ (Len(detections') = 0)
              => /\ associations' = EmptyMap
                 /\ created' = EmptyMap
                 /\ DOMAIN tracks' \subseteq DOMAIN tracks
                 /\ next_track_id' = next_track_id
                 /\ Range(returned') = {id \in DOMAIN tracks' : tracks'[id].is_active}]_vars

\* after an update() without detections, an active track whose filter has
\* been predicted away from the track's recorded position
C15_Witness ==
    /\ Len(detections) = 0
    /\ \E id \in DOMAIN tracks :
          /\ tracks[id].is_active
          /\ tracks[id].last_seen_frame < frame
          /\ id \in DOMAIN predicted
          /\ predicted[id] # tracks[id].current_position

C17_ResetClears ==
    [][/\ (epoch' # epoch) =>
             /\ {id \in DOMAIN tracks' : tracks'[id].is_active} = {}
             /\ \A id \in 0..next_track_id : get_track_by_id(tracks', id) = <<>>
             /\ DOMAIN tracks' = {}
             /\ DOMAIN kalman_filters' = {}
             /\ \A k \in DOMAIN tracking_stats' : tracking_stats'[k] = 0
             /\ next_track_id' = 1
       /\ (IsUpdate /\ epoch >= 1 /\ tracking_stats.total_tracks_created = 0
           /\ created' # EmptyMap)
             => 1 \in DOMAIN created']_vars

\* after a reset that cleared tracks, the first new track has id 1
C17_Witness ==
    /\ epoch >= 1
    /\ \E p \in issued : p[1] = 0 /\ p[2] >= 2
    /\ tracking_stats.total_tracks_created = 1
    /\ 1 \in DOMAIN created

\* the tracks as the solver would see them if it read each active track's
\* predicted position for the frame instead of its recorded position
AtPredictedPosition(trks, pred) ==
    [id \in DOMAIN trks |->
       IF id \in DOMAIN pred
       THEN [trks[id] EXCEPT !.current_position = pred[id]] ELSE trks[id]]

\* C18. Predict-then-associate: in every update() each active track's filter
\* is predicted before association, and the associations are those of a cost
\* matrix whose (track, detection) cell is the distance between the track's
\* predicted position for this frame and the detection, not between the
\* track's last recorded position and the detection.
C18_PredictThenAssociate ==
    [][IsUpdate =>
        /\ DOMAIN predicted' = {id \in DOMAIN tracks : tracks[id].is_active}
        /\ associations' \in
              {r.assoc : r \in _associate_detections_to_tracks(
                                   AtPredictedPosition(tracks, predicted'),
                                   detections')}]_vars

\* C19. Ineligible pairings are dropped individually: when an active track
\* and a detection are eligible for each other (same type, within
\* max_tracking_distance) and for nothing else in the frame, the track is
\* associated with that detection, whatever other tracks and detections
\* without an eligible partner the frame holds.
C19_IneligibleDroppedIndividually ==
    [][IsUpdate =>
        LET active == {id \in DOMAIN tracks : tracks[id].is_active}
            eligible(id, j) ==
                /\ tracks[id].ball_type = get_ball_type(detections'[j])
                /\ distance_to(tracks[id].current_position,
                               get_centroid(detections'[j])) <= MaxTrackingDistance
        IN \A id \in active, j \in 1..Len(detections') :
              (/\ eligible(id, j)
               /\ \A other \in active \ {id} : ~eligible(other, j)
               /\ \A k \in (1..Len(detections')) \ {j} : ~eligible(id, k))
                  => /\ id \in DOMAIN associations'
                     /\ associations'[id] = j]_vars

\* the solver raises on the cost matrix of these tracks and detections
SolverRaises(trks, dets) ==
    LET ids == active_track_ids(trks)
    IN /\ Len(ids) > 0
       /\ Len(dets) > 0
       /\ linear_sum_assignment(cost_matrix(trks, dets), Len(ids), Len(dets)) = {}

\* C20. Solver failure fallback: when the assignment solver raises inside
\* the association step, update() still completes the frame with zero
\* associations: no existing track is updated, every detection creates a new
\* track, every existing track is aged (deactivated after
\* max_disappeared_frames, removed after twice that), association_failures
\* grows by one, and the active tracks are returned.
C20_SolverFailureFallback ==
    [][(IsUpdate /\ SolverRaises(tracks, detections')) =>
        /\ associations' = EmptyMap
        /\ Cardinality(DOMAIN created') = Len(detections')
        /\ \A j \in 1..Len(detections') : \E nid \in DOMAIN created' : created'[nid] = j
        /\ \A id \in DOMAIN tracks :
              LET gap == frame' - tracks[id].last_seen_frame
              IN /\ (id \in DOMAIN tracks') <=> (gap <= 2 * max_disappeared_frames)
                 /\ (id \in DOMAIN tracks') =>
                        tracks'[id] = [tracks[id] EXCEPT
                                         !.is_active = tracks[id].is_active
                                                       /\ gap <= max_disappeared_frames]
        /\ tracking_stats'.association_failures
              = tracking_stats.association_failures + 1
        /\ tracking_stats'.total_tracks_created
              = tracking_stats.total_tracks_created + Len(detections')
        /\ Range(returned') = {id \in DOMAIN tracks' : tracks'[id].is_active}
        /\ DOMAIN created' \subseteq Range(returned')]_vars

\* a frame whose associations were lost to a solver failure although an
\* older active track had a detection of its type within reach
C20_Witness ==
    /\ tracking_stats.association_failures >= 1
    /\ associations = EmptyMap
    /\ Cardinality(DOMAIN created) = Len(detections)
    /\ \E id \in DOMAIN tracks, j \in 1..Len(detections) :
          /\ id \notin DOMAIN created
          /\ tracks[id].is_active
          /\ tracks[id].ball_type = get_ball_type(detections[j])
          /\ distance_to(tracks[id].current_position, get_centroid(detections[j]))
                 <= MaxTrackingDistance

\* C21. update() never propagates an exception, whatever the detections,
\* including a detection whose class id is no known ball class; the call
\* leaves no track partially created: every id the counter moved past belongs
\* to a track the call created.
C21_NeverRaises ==
    [][IsUpdate =>
        /\ ~raised'
        /\ next_track_id' - next_track_id = Cardinality(DOMAIN created')]_vars

\* the analyzer has no calibration data, or calibration without pockets
Uncalibrated ==
    IF calibration_data = <<>> THEN TRUE
    ELSE calibration_data[1].pocket_regions = <<>>

\* C22. Without calibration, or with calibration that has no pocket regions,
\* detect_potting_events() still classifies every track it is given, never
\* as POTTED, returns an empty list and adds nothing to the event log.
C22_NoCalibrationNoPotting ==
    [][(Uncalibrated /\ analyzed' /\ ~analyzed) =>
        /\ potting_events' = <<>>
        /\ detected_events' = detected_events
        /\ \A id \in DOMAIN tracks :
              tracks[id].is_active =>
                 /\ id \in DOMAIN ball_states'
                 /\ ball_states'[id] \in {STATIONARY, MOVING, COLLISION}
        /\ \A id \in DOMAIN ball_states' : ball_states'[id] # POTTED]_vars

\* without pockets, an analysed active track at rest whose last three or
\* more positions are all on the spot where the calibrated table has a pocket
C22_Witness ==
    /\ Uncalibrated
    /\ analyzed
    /\ \E id \in DOMAIN tracks \cap DOMAIN ball_states :
          /\ tracks[id].is_active
          /\ Len(tracks[id].trajectory) >= MinRecent
          /\ \A i \in 1..Len(tracks[id].trajectory) : tracks[id].trajectory[i] = 0
          /\ ~_is_ball_moving(tracks[id])
          /\ ball_states[id] = STATIONARY

\* the speed of a track exceeds the motion threshold
Fast(ball) ==
    /\ ball.velocity # <<>>
    /\ Abs(ball.velocity[1]) > MotionThreshold

\* a position is within the pocket threshold of the centre of some pocket
NearExitZone(position) ==
    /\ calibration_data # <<>>
    /\ \E i \in 1..Len(calibration_data[1].pocket_regions) :
          LET pocket == calibration_data[1].pocket_regions[i]
          IN 2 * Abs(position - (pocket.x1 + pocket.x2) \div 2) <= 2 * PocketThreshold

\* C23. State classification is total and in priority order: every track the
\* analyzer is given gets one of the five states; it is LOST when the track is
\* inactive, whatever its position and speed; else POTTED when the potting
\* condition holds; else COLLISION when its speed exceeds the motion
\* threshold and its last segments show a sharp change of direction; else
\* MOVING when its speed exceeds the threshold; else STATIONARY.  A track
\* without velocity is never MOVING or COLLISION.
C23_ClassificationOrder ==
    [][(analyzed' /\ ~analyzed) =>
        /\ \A id \in DOMAIN ball_states' :
              ball_states'[id] \in {STATIONARY, MOVING, POTTED, LOST, COLLISION}
        /\ \A id \in DOMAIN tracks :
              /\ tracks[id].is_active => id \in DOMAIN ball_states'
              /\ (id \in DOMAIN ball_states' /\ id \notin DOMAIN ball_states) =>
                    LET ball == tracks[id]
                    IN /\ ball_states'[id] =
                             (IF ~ball.is_active THEN LOST
                              ELSE IF _is_ball_potted(calibration_data, ball) THEN POTTED
                              ELSE IF Fast(ball) /\ _detect_collision(ball) THEN COLLISION
                              ELSE IF Fast(ball) THEN MOVING
                              ELSE STATIONARY)
                       /\ (ball.velocity = <<>>) =>
                             ball_states'[id] \notin {MOVING, COLLISION}]_vars

\* an inactive track at rest on a pocket classified LOST next to an active
\* track classified COLLISION
C23_Witness ==
    \E id1, id2 \in DOMAIN ball_states \cap DOMAIN tracks :
        /\ ~tracks[id1].is_active
        /\ NearExitZone(tracks[id1].current_position)
        /\ Len(tracks[id1].trajectory) >= MinRecent
        /\ \A i \in 1..Len(tracks[id1].trajectory) : tracks[id1].trajectory[i] = 0
        /\ ~Fast(tracks[id1])
        /\ ball_states[id1] = LOST
        /\ ball_states[id2] = COLLISION

\* C24. A track is classified POTTED only if it is active, its current
\* position is near an exit zone, it has at least 3 recorded positions, all
\* of its last (up to 5) positions are near an exit zone, and its speed does
\* not exceed the motion threshold.
C24_PottedOnlyIf ==
    \A id \in DOMAIN ball_states \cap DOMAIN tracks :
        ball_states[id] = POTTED =>
            LET ball == tracks[id]
                n == Len(ball.trajectory)
            IN /\ ball.is_active
               /\ NearExitZone(ball.current_position)
               /\ n >= MinRecent
               /\ \A i \in 1..n :
                     i > n - RecentWindow => NearExitZone(ball.trajectory[i])
               /\ ~Fast(ball)

\* a track classified POTTED whose speed is exactly the motion threshold and
\* whose sixth-last position is away from every exit zone
C24_Witness ==
    \E id \in DOMAIN ball_states \cap DOMAIN tracks :
        /\ ball_states[id] = POTTED
        /\ tracks[id].velocity = <<MotionThreshold>>
        /\ Len(tracks[id].trajectory) > RecentWindow
        /\ ~NearExitZone(tracks[id].trajectory[1])

\* C25. detect_collision_events(tracks) emits events only for two different
\* tracks whose current positions are within the collision distance and
\* that both show the sharp-direction-change signal, emits one for every
\* such pair of the tracks it was given (the active tracks or all tracks),
\* at most one per unordered pair, each carrying both ids and the midpoint
\* of the two positions, and appends exactly these events to the event log.
C25_CollisionEvents ==
    [][(collisions_checked' /\ ~collisions_checked) =>
        LET evs == collision_events'
        IN /\ \A k \in 1..Len(evs) :
                 LET a == evs[k].ball1_id
                     b == evs[k].ball2_id
                 IN /\ a # b
                    /\ a \in DOMAIN tracks /\ b \in DOMAIN tracks
                    /\ Abs(tracks[a].current_position - tracks[b].current_position)
                           <= CollisionDistance
                    /\ _detect_collision(tracks[a])
                    /\ _detect_collision(tracks[b])
                    /\ evs[k].collision_point[1] * 2
                           = (tracks[a].current_position + tracks[b].current_position)
                                 * evs[k].collision_point[2]
           /\ \A k, l \in 1..Len(evs) :
                 k # l => {evs[k].ball1_id, evs[k].ball2_id}
                              # {evs[l].ball1_id, evs[l].ball2_id}
           /\ \E input \in {{id \in DOMAIN tracks : tracks[id].is_active},
                            DOMAIN tracks} :
                 {{evs[k].ball1_id, evs[k].ball2_id} : k \in 1..Len(evs)}
                    = {pair \in SUBSET input :
                          \E a, b \in pair :
                              /\ a # b
                              /\ pair = {a, b}
                              /\ Abs(tracks[a].current_position
                                       - tracks[b].current_position)
                                     <= CollisionDistance
                              /\ _detect_collision(tracks[a])
                              /\ _detect_collision(tracks[b])}
           /\ detected_events' = detected_events \o evs]_vars

\* a collision event for two balls 20 apart, next to a log that shows the
\* call added one event
C25_Witness ==
    /\ collisions_checked
    /\ Len(collision_events) = 1
    /\ collision_events[1].collision_point = <<20, 2>>
    /\ Len(detected_events) >= 1
    /\ detected_events[Len(detected_events)] = collision_events[1]

\* C26. Every track in the live set, active or inactive, owns exactly one
\* estimator, and no estimator belongs to a track outside the live set: the
\* filters are keyed by exactly the ids of the live tracks.
C26_EstimatorOwnership == DOMAIN kalman_filters = DOMAIN tracks

\* C27. A track's velocity is undefined exactly while its trajectory holds
\* the single observation it was created with, and a defined velocity never
\* becomes undefined again while the track lives.
C27_VelocityDefined ==
    [][IsUpdate =>
        /\ \A id \in DOMAIN tracks' :
              (tracks'[id].velocity = <<>>) <=> (Len(tracks'[id].trajectory) = 1)
        /\ \A id \in Kept :
              /\ tracks[id].velocity # <<>> => tracks'[id].velocity # <<>>
              /\ id \in DOMAIN associations' => tracks'[id].velocity # <<>>]_vars

\* a track whose first matched update has just given it a velocity, next to
\* a track created in the same frame that has none yet
C27_Witness ==
    \E id1, id2 \in DOMAIN tracks :
        /\ id1 \in DOMAIN associations
        /\ Len(tracks[id1].trajectory) = 2
        /\ tracks[id1].velocity # <<>>
        /\ id2 \in DOMAIN created
        /\ tracks[id2].velocity = <<>>

\* C28 as stated: a track that update() leaves unassociated is inactive as
\* soon as the frame number is max_disappeared_frames past its last sighting.
C28_InactiveAtTolerance_Stated ==
    [][IsUpdate =>
        \A id \in Kept :
            (/\ id \notin DOMAIN associations'
             /\ frame' - tracks[id].last_seen_frame = max_disappeared_frames)
               => ~tracks'[id].is_active]_vars

\* C28. A track that was active and that update() leaves unassociated stays
\* active while the frame number is at most max_disappeared_frames past its
\* last sighting, and is inactive from the first frame on which the gap
\* exceeds max_disappeared_frames.
C28_InactiveBeyondTolerance ==
    [][IsUpdate =>
        \A id \in Kept :
            (tracks[id].is_active /\ id \notin DOMAIN associations')
               => (tracks'[id].is_active
                     <=> frame' - tracks[id].last_seen_frame <= max_disappeared_frames)]_vars

\* an unassociated track, still active, exactly max_disappeared_frames
\* frames after its last sighting
C28_Witness ==
    \E id \in DOMAIN tracks :
        /\ id \notin DOMAIN associations
        /\ id \notin DOMAIN created
        /\ tracks[id].is_active
        /\ frame - tracks[id].last_seen_frame = max_disappeared_frames

\* C29. After every update(), with or without detections, the statistics'
\* active_tracks equals the number of tracks get_active_tracks() returns and
\* total_tracks_created equals the number of tracks created since
\* construction.
C29_StatsMatchTracks ==
    [][IsUpdate =>
        /\ tracking_stats'.active_tracks = Len(get_active_tracks(tracks'))
        /\ tracking_stats'.total_tracks_created = Cardinality(issued')]_vars

\* C30. The statistics record always holds the fields total_tracks_created,
\* active_tracks and lost_tracks.
C30_StatsFields ==
    {"total_tracks_created", "active_tracks", "lost_tracks"}
        \subseteq DOMAIN tracking_stats

\* C31. When a track within its disappearance tolerance gets no detection in
\* a frame in which other tracks are matched, update() still returns it, but
\* with is_active = false: the returned tracks with is_active = true are as
\* many as the detections of the frame.
C31_UnmatchedReportedInactive ==
    [][(IsUpdate /\ associations' # EmptyMap) =>
        /\ \A id \in Kept :
              (/\ id \notin DOMAIN associations'
               /\ tracks[id].is_active
               /\ frame' - tracks[id].last_seen_frame <= max_disappeared_frames)
                 => /\ id \in Range(returned')
                    /\ ~tracks'[id].is_active
        /\ Cardinality({id \in Range(returned') : tracks'[id].is_active})
              = Len(detections')]_vars

\* C32. Ids are assigned in creation order: the first track created gets id
\* 1, every later track gets an id greater than every id assigned before it
\* (tracks created in one frame in the order of their detections), each
\* unassociated detection gets an id of its own, and a track in the live set
\* is found under an id that was assigned once.
C32_IdsInCreationOrder ==
    [][IsUpdate =>
        LET before == {p[2] : p \in issued}
            new == DOMAIN created'
        IN /\ \A id \in new : \A old \in before : id > old
           /\ (before = {} /\ new # {}) => 1 \in new
           /\ \A id \in new : id >= 1
           /\ \A id1, id2 \in new :
                 id1 < id2 => created'[id1] < created'[id2]
           /\ Cardinality(new)
                 = Len(detections') - Cardinality(DOMAIN associations')
           /\ DOMAIN tracks' \subseteq before \cup new
           /\ Cardinality(issued') = Cardinality(issued) + Cardinality(new)]_vars

\* two tracks created in one frame after an earlier track: ids 2 and 3 in
\* the order of their detections
C32_Witness ==
    /\ 1 \in {p[2] : p \in issued}
    /\ DOMAIN created = {2, 3}
    /\ created[2] = 1
    /\ created[3] = 2
    /\ {2, 3} \subseteq DOMAIN tracks

\* C33. A track past its retirement deadline is never revived: whatever
\* increasing frame numbers update() is given, no detection at frame f is
\* associated with a track for which f - last_seen_frame exceeded twice
\* max_disappeared_frames when the call began.
C33_NoRevivalPastDeadline ==
    [][IsUpdate =>
        \A id \in DOMAIN associations' :
            id \in DOMAIN tracks
               => frame' - tracks[id].last_seen_frame <= 2 * max_disappeared_frames]_vars

C35_FiltersOfActiveTracks ==
    DOMAIN kalman_filters = {id \in DOMAIN tracks : tracks[id].is_active}

\* after a reset, an inactive track without estimator next to an active
\* track with one
C35_Witness ==
    /\ epoch >= 1
    /\ \E id1, id2 \in DOMAIN tracks :
          /\ ~tracks[id1].is_active
          /\ id1 \notin DOMAIN kalman_filters
          /\ tracks[id2].is_active
          /\ id2 \in DOMAIN kalman_filters

\* C36. The lost-track counter counts each track once: an update() raises
\* total_tracks_lost by the number of tracks it turns from active to
\* inactive, and total_tracks_lost never exceeds total_tracks_created.
C36_LostCountedOnce ==
    [][IsUpdate =>
        /\ tracking_stats'.total_tracks_lost - tracking_stats.total_tracks_lost
              = Cardinality({id \in DOMAIN tracks :
                               /\ tracks[id].is_active
                               /\ \/ id \notin DOMAIN tracks'
                                  \/ ~tracks'[id].is_active})
        /\ tracking_stats'.total_tracks_lost
              <= tracking_stats'.total_tracks_created]_vars

\* update() is update_outcome for some time steps, solver answer and gains
UpdateIsOutcome ==
    [][IsUpdate =>
        \E res \in _associate_detections_to_tracks(tracks, detections') :
        \E gp \in [DOMAIN res.assoc -> PosGains], gv \in [DOMAIN res.assoc -> VelGains] :
        \E dts \in [PredictedIds(tracks, kalman_filters) -> 0..MaxDt] :
            LET out == update_outcome(tracks, kalman_filters, next_track_id,
                                      trajectory_smoothing, detections', frame',
                                      dts, res.assoc, gp, gv)
            IN /\ out.tracks = tracks'
               /\ out.returned = returned'
               /\ out.associations = associations']_vars

====
